---- MODULE Spec2Model ----
(***************************************************************************)
(* Model of internet_connection_logger (src/main.py): the InternetMonitor  *)
(* object, the tick loop of main(), the process's ways of ending           *)
(* (KeyboardInterrupt, an exception of save_stats, a kill) and a restart   *)
(* on the same log file.                                                   *)
(*                                                                         *)
(* Numbers.  Python floats are modelled as exact fractions [n, d] with     *)
(* d > 0; the absent value None is the record with d = 0.  jitter is kept  *)
(* as its square (the sample variance), since a square root is no          *)
(* fraction.  The clock counts whole seconds.                              *)
(***************************************************************************)
EXTENDS Integers, Sequences, FiniteSets, TLC

\* ------------------------------------------------------------------ bounds
\* ticks started over all runs of a behaviour
MaxTicks == 2
\* runs of the process (1 + restarts)
MaxRuns == 2
\* seconds a slow throughput probe takes (a fast one takes none)
MaxProbeSecs == 1
\* speed_test_interval, scaled from main()'s 300 seconds
speed_test_interval == 2

\* --------------------------------------------------------------- constants
\* ping_command's default count, the one collect_metrics uses
count == 3
\* seconds of time.sleep in main
SleepSecs == 1
\* divisor of the bits-per-second readings
Mega == 1000000

\* ----------------------------------------------------------------- numbers
None == [n |-> 0, d |-> 0]

Num(a) == [n |-> a, d |-> 1]

IsNone(x) == x.d = 0

\* comparison and equality of the values of two present fractions
Leq(x, y) == x.n * y.d <= y.n * x.d

Same(x, y) == IF IsNone(x) \/ IsNone(y) THEN x = y ELSE x.n * y.d = y.n * x.d

RECURSIVE SumSeq(_)
SumSeq(s) == IF s = <<>> THEN 0 ELSE Head(s) + SumSeq(Tail(s))

RECURSIVE SumSq(_)
SumSq(s) == IF s = <<>> THEN 0 ELSE Head(s) * Head(s) + SumSq(Tail(s))

\* statistics.mean
mean(times) == [n |-> SumSeq(times), d |-> Len(times)]

\* statistics.stdev, squared: sum((x - mean)^2) / (k - 1)
stdev(times) ==
    LET k == Len(times)
    IN  [n |-> k * SumSq(times) - SumSeq(times) * SumSeq(times), d |-> k * (k - 1)]

IsPrefix(s, t) == Len(s) <= Len(t) /\ SubSeq(t, 1, Len(s)) = s

\* ------------------------------------------------------- the latency probe
\* A line of ping's stdout: whether it contains "time=", and the token the
\* two split calls cut out after it (a number of ms, or NaF for a token
\* float() rejects).
NaF == 0 - 1

\* the lines that contain "time=" (the comprehension's filter)
RECURSIVE TimeLines(_)
TimeLines(out) ==
    IF out = <<>> THEN <<>>
    ELSE IF Head(out).has_time THEN <<Head(out)>> \o TimeLines(Tail(out))
    ELSE TimeLines(Tail(out))

RECURSIVE Tokens(_)
Tokens(ls) == IF ls = <<>> THEN <<>> ELSE <<Head(ls).token>> \o Tokens(Tail(ls))

\* float() raises ValueError on some token of the comprehension
ValueError(out) == \E i \in 1..Len(TimeLines(out)) : TimeLines(out)[i].token = NaF

PingFailed == [ping |-> None, jitter |-> None, packet_loss |-> Num(100)]

\* The mutant calls statistics.stdev whatever the number of times: on a
\* single time it raises, and the except clause reports a failed probe.
ping_command_stdev_unguarded(run, cnt) ==
    IF run.kind # "exit0" \/ ValueError(run.out) THEN PingFailed
    ELSE LET times == Tokens(TimeLines(run.out))
         IN  IF Len(times) > 1
             THEN [ping |-> mean(times),
                   jitter |-> stdev(times),
                   packet_loss |-> [n |-> 100 * cnt - Len(times) * 100, d |-> cnt]]
             ELSE PingFailed

\* ping_command(count = cnt) on one run of the ping process:
\* run.kind is "spawn_error" (subprocess.run raises), "nonzero" (returncode
\* # 0) or "exit0"; run.out is its stdout.
ping_command(run, cnt) ==
    IF run.kind = "spawn_error" THEN PingFailed
    ELSE IF run.kind # "exit0" THEN PingFailed
    ELSE IF ValueError(run.out) THEN PingFailed
    ELSE LET times == Tokens(TimeLines(run.out))
         IN  IF times # <<>>
             THEN [ping |-> mean(times),
                   jitter |-> IF Len(times) > 1 THEN stdev(times) ELSE Num(0),
                   packet_loss |-> [n |-> 100 * cnt - Len(times) * 100, d |-> cnt]]
             ELSE PingFailed

\* the runs of the ping process a tick may see: no spawn, a non-zero exit,
\* or exit 0 with: three replies; one reply; a reply line with a token
\* float() rejects among good ones; a duplicated reply (DUP!), which makes
\* four "time=" lines for three probes
Reply(t) == [has_time |-> TRUE, token |-> t]

Summary == [has_time |-> FALSE, token |-> NaF]

Outputs ==
    { <<Reply(10), Reply(20), Reply(10), Summary>>,
      <<Reply(20), Summary>>,
      <<Reply(10), Reply(NaF), Reply(20), Summary>>,
      <<Reply(10), Reply(10), Reply(20), Reply(20)>> }

PingRuns ==
    {[kind |-> "spawn_error", out |-> <<>>], [kind |-> "nonzero", out |-> <<Summary>>]}
    \cup {[kind |-> "exit0", out |-> o] : o \in Outputs}

\* ---------------------------------------------------- the throughput probe
DownloadBps == {94000000}

UploadBps == {18000000}

\* one use of speedtest.Speedtest: what it does and how long it takes
Probes ==
    [result : {"ok", "download_raises", "upload_raises"},
     down : DownloadBps, up : UploadBps, secs : {0, MaxProbeSecs}]

\* The mutant leaves out line 40: the cooldown never starts.
measure_speed_no_stamp(current_time, last, probe) ==
    IF current_time - last < speed_test_interval
    THEN [download |-> None, upload |-> None, last_speed_test |-> last,
          outcome |-> "skipped"]
    ELSE IF probe.result = "ok"
    THEN [download |-> [n |-> probe.down, d |-> Mega],
          upload |-> [n |-> probe.up, d |-> Mega],
          last_speed_test |-> last, outcome |-> "ok"]
    ELSE [download |-> None, upload |-> None, last_speed_test |-> last,
          outcome |-> probe.result]

\* The mutant keeps the download reading when the upload raises.
measure_speed_keeps_download(current_time, last, probe) ==
    IF current_time - last < speed_test_interval
    THEN [download |-> None, upload |-> None, last_speed_test |-> last,
          outcome |-> "skipped"]
    ELSE IF probe.result = "ok"
    THEN [download |-> [n |-> probe.down, d |-> Mega],
          upload |-> [n |-> probe.up, d |-> Mega],
          last_speed_test |-> current_time, outcome |-> "ok"]
    ELSE IF probe.result = "upload_raises"
    THEN [download |-> [n |-> probe.down, d |-> Mega], upload |-> None,
          last_speed_test |-> last, outcome |-> probe.result]
    ELSE [download |-> None, upload |-> None, last_speed_test |-> last,
          outcome |-> probe.result]

\* The mutant has no cooldown test: every tick runs the speed test.
measure_speed_every_tick(current_time, last, probe) ==
    IF probe.result = "ok"
    THEN [download |-> [n |-> probe.down, d |-> Mega],
          upload |-> [n |-> probe.up, d |-> Mega],
          last_speed_test |-> current_time, outcome |-> "ok"]
    ELSE [download |-> None, upload |-> None, last_speed_test |-> last,
          outcome |-> probe.result]

\* The mutant stamps the time read after the transfers, not current_time.
measure_speed_stamp_after(current_time, last, probe) ==
    IF current_time - last < speed_test_interval
    THEN [download |-> None, upload |-> None, last_speed_test |-> last,
          outcome |-> "skipped"]
    ELSE IF probe.result = "ok"
    THEN [download |-> [n |-> probe.down, d |-> Mega],
          upload |-> [n |-> probe.up, d |-> Mega],
          last_speed_test |-> current_time + probe.secs, outcome |-> "ok"]
    ELSE [download |-> None, upload |-> None, last_speed_test |-> last,
          outcome |-> probe.result]

\* measure_speed at clock reading current_time, with last_speed_test = last;
\* probe is what the speed test does if it is invoked.
measure_speed(current_time, last, probe) ==
    IF current_time - last < speed_test_interval
    THEN [download |-> None, upload |-> None, last_speed_test |-> last,
          outcome |-> "skipped"]
    ELSE IF probe.result = "ok"
    THEN [download |-> [n |-> probe.down, d |-> Mega],
          upload |-> [n |-> probe.up, d |-> Mega],
          last_speed_test |-> current_time, outcome |-> "ok"]
    ELSE [download |-> None, upload |-> None, last_speed_test |-> last,
          outcome |-> probe.result]

\* ------------------------------------------------------------------- store
NoFile == [exists |-> FALSE, rows |-> <<>>]

\* The mutant writes new_row, not the frame.
to_parquet_last_row(frame) ==
    [exists |-> TRUE,
     rows |-> IF frame = <<>> THEN <<>> ELSE <<frame[Len(frame)]>>]

\* DataFrame.to_parquet(index=False): the file holds the rows, in order
to_parquet(frame) == [exists |-> TRUE, rows |-> frame]

read_parquet(file) == file.rows

NewRow(ts, speed, latency) ==
    [timestamp |-> ts,
     download_speed |-> speed.download,
     upload_speed |-> speed.upload,
     ping |-> latency.ping,
     jitter |-> latency.jitter,
     packet_loss |-> latency.packet_loss]

\* The mutant records nothing when the latency probe failed.
collect_metrics_skip_failed(frame, ts, speed, latency) ==
    IF IsNone(latency.ping) THEN frame ELSE Append(frame, NewRow(ts, speed, latency))

\* The mutant concatenates in the other order: the new row comes first.
collect_metrics_newest_first(frame, ts, speed, latency) ==
    <<NewRow(ts, speed, latency)>> \o frame

\* the frame collect_metrics leaves: the old rows and the new one at the end
collect_metrics(frame, ts, speed, latency) ==
    Append(frame, NewRow(ts, speed, latency))

\* ------------------------------------------------------------------- state
VARIABLES
    pc,               \* where the process is: "init", a step of the loop of
                      \* main ("measure_speed", "ping_command", "print", "save",
                      \* "sleep"), "handler" (the except block), or ended:
                      \* "exited", "fatal" (uncaught exception), "killed"
    run,              \* which run of the process this is
    now,              \* the clock, time.time()
    disk,             \* the log file
    df,               \* self.df
    log_count,        \* self.log_count
    last_speed_test,  \* self.last_speed_test
    timestamp,        \* collect_metrics' local
    speed,            \* what measure_speed returned in this tick
    ping_run,         \* what the ping process did in this tick
    loaded,           \* history: the frame __init__ loaded in this run
    started,          \* history: ticks started, over all runs
    ticks,            \* history: iterations of the loop completed in this run
    probes,           \* history: the speed tests invoked in this run
    interrupted,      \* history: KeyboardInterrupt was raised in this run
    stop_at,          \* history: pc at which the interrupt or kill arrived
    write_failed,     \* history: to_parquet raised in this run
    pings,            \* history: runs of the ping process in this run
    flushed           \* history: the frame of the latest completed to_parquet

vars == <<pc, run, now, disk, df, log_count, last_speed_test, timestamp, speed,
          ping_run, loaded, started, ticks, probes, interrupted, stop_at,
          write_failed, pings, flushed>>

LoopPcs == {"measure_speed", "ping_command", "print", "save", "sleep"}

NoSpeed == [download |-> None, upload |-> None, last_speed_test |-> 0,
            outcome |-> "skipped"]

NoPing == [kind |-> "spawn_error", out |-> <<>>]

\* main() has not yet built the monitor.  The clock reads a time since the
\* epoch, far more than the interval after 0.
Init ==
    /\ pc = "init"
    /\ run = 1
    /\ now = speed_test_interval
    /\ disk = NoFile
    /\ df = <<>>
    /\ log_count = 0
    /\ last_speed_test = 0
    /\ timestamp = 0
    /\ speed = NoSpeed
    /\ ping_run = NoPing
    /\ loaded = <<>>
    /\ started = 0
    /\ ticks = 0
    /\ probes = <<>>
    /\ interrupted = FALSE
    /\ stop_at = "init"
    /\ write_failed = FALSE
    /\ pings = 0
    /\ flushed = <<>>

\* The mutant's cooldown outlives the process.
Construct_keeps_cooldown ==
    /\ pc = "init"
    /\ df' = IF disk.exists THEN read_parquet(disk) ELSE <<>>
    /\ log_count' = IF disk.exists THEN Len(read_parquet(disk)) ELSE 0
    /\ last_speed_test' = last_speed_test
    /\ loaded' = df'
    /\ timestamp' = 0
    /\ speed' = NoSpeed
    /\ ping_run' = NoPing
    /\ ticks' = 0
    /\ probes' = <<>>
    /\ interrupted' = FALSE
    /\ write_failed' = FALSE
    /\ pings' = 0
    /\ pc' = "measure_speed"
    /\ UNCHANGED <<flushed, run, now, disk, started, stop_at>>

\* InternetMonitor.__init__
Construct ==
    /\ pc = "init"
    /\ df' = IF disk.exists THEN read_parquet(disk) ELSE <<>>
    /\ log_count' = IF disk.exists THEN Len(read_parquet(disk)) ELSE 0
    /\ last_speed_test' = 0
    /\ loaded' = df'
    /\ timestamp' = 0
    /\ speed' = NoSpeed
    /\ ping_run' = NoPing
    /\ ticks' = 0
    /\ probes' = <<>>
    /\ interrupted' = FALSE
    /\ write_failed' = FALSE
    /\ pings' = 0
    /\ pc' = "measure_speed"
    /\ UNCHANGED <<flushed, run, now, disk, started, stop_at>>

\* The mutant has no try around the speed test: its exception leaves main.
MeasureSpeed_propagates ==
    /\ pc = "measure_speed"
    /\ started < MaxTicks
    /\ \E probe \in Probes :
         LET r == measure_speed(now, last_speed_test, probe)
         IN  /\ speed' = r
             /\ last_speed_test' = r.last_speed_test
             /\ IF r.outcome = "skipped"
                THEN UNCHANGED <<now, probes>>
                ELSE /\ now' = now + probe.secs
                     /\ probes' = Append(probes, [at |-> now, ok |-> r.outcome = "ok"])
             /\ pc' = IF r.outcome \in {"skipped", "ok"} THEN "ping_command" ELSE "fatal"
    /\ timestamp' = now
    /\ started' = started + 1
    /\ UNCHANGED <<pings, flushed, run, disk, df, log_count, ping_run, loaded, ticks, interrupted,
                   stop_at, write_failed>>

\* collect_metrics, lines 86-87: the timestamp and measure_speed
MeasureSpeed ==
    /\ pc = "measure_speed"
    /\ started < MaxTicks
    /\ \E probe \in Probes :
         LET r == measure_speed(now, last_speed_test, probe)
         IN  /\ speed' = r
             /\ last_speed_test' = r.last_speed_test
             /\ IF r.outcome = "skipped"
                THEN UNCHANGED <<now, probes>>
                ELSE /\ now' = now + probe.secs
                     /\ probes' = Append(probes, [at |-> now, ok |-> r.outcome = "ok"])
    /\ timestamp' = now
    /\ started' = started + 1
    /\ pc' = "ping_command"
    /\ UNCHANGED <<pings, flushed, run, disk, df, log_count, ping_run, loaded, ticks, interrupted,
                   stop_at, write_failed>>

\* The mutant runs the latency probe only in ticks without a speed reading.
PingAndAppend_pings_without_speed ==
    /\ pc = "ping_command"
    /\ IF speed.outcome = "ok"
       THEN /\ df' = collect_metrics(df, timestamp, speed, PingFailed)
            /\ UNCHANGED <<ping_run, pings>>
       ELSE /\ \E r \in PingRuns :
                 /\ ping_run' = r
                 /\ df' = collect_metrics(df, timestamp, speed, ping_command(r, count))
            /\ pings' = pings + 1
    /\ log_count' = log_count + 1
    /\ pc' = "print"
    /\ UNCHANGED <<flushed, run, now, disk, last_speed_test, timestamp, speed, loaded, started,
                   ticks, probes, interrupted, stop_at, write_failed>>

\* collect_metrics, lines 88-100: ping_command, the new row, the concat
PingAndAppend ==
    /\ pc = "ping_command"
    /\ \E r \in PingRuns :
         /\ ping_run' = r
         /\ df' = collect_metrics(df, timestamp, speed, ping_command(r, count))
    /\ log_count' = log_count + 1
    /\ pings' = pings + 1
    /\ pc' = "print"
    /\ UNCHANGED <<flushed, run, now, disk, last_speed_test, timestamp, speed, loaded, started,
                   ticks, probes, interrupted, stop_at, write_failed>>

\* print_latest_stats writes to the terminal only
PrintLatestStats ==
    /\ pc = "print"
    /\ pc' = "save"
    /\ UNCHANGED <<pings, flushed, run, now, disk, df, log_count, last_speed_test, timestamp, speed,
                   ping_run, loaded, started, ticks, probes, interrupted, stop_at,
                   write_failed>>

\* The mutant catches the exception of to_parquet and carries on.
SaveStats_swallow ==
    /\ pc = "save"
    /\ \/ /\ disk' = to_parquet(df)
          /\ flushed' = df
          /\ UNCHANGED write_failed
       \/ /\ write_failed' = TRUE
          /\ UNCHANGED <<disk, flushed>>
    /\ pc' = "sleep"
    /\ ticks' = ticks + 1
    /\ UNCHANGED <<pings, run, now, df, log_count, last_speed_test, timestamp, speed, ping_run,
                   loaded, started, probes, interrupted, stop_at>>

\* The mutant writes the file on every second sample only.
SaveStats_batched ==
    /\ pc = "save"
    /\ \/ /\ Len(df) % 2 = 0
          /\ disk' = to_parquet(df)
          /\ flushed' = df
          /\ pc' = "sleep"
          /\ ticks' = ticks + 1
          /\ UNCHANGED write_failed
       \/ /\ Len(df) % 2 = 1
          /\ pc' = "sleep"
          /\ ticks' = ticks + 1
          /\ UNCHANGED <<disk, flushed, write_failed>>
       \/ /\ write_failed' = TRUE
          /\ pc' = "fatal"
          /\ UNCHANGED <<disk, flushed, ticks>>
    /\ UNCHANGED <<pings, run, now, df, log_count, last_speed_test, timestamp, speed, ping_run,
                   loaded, started, probes, interrupted, stop_at>>

\* save_stats in the loop: to_parquet overwrites the file with the whole
\* frame, or raises (the file cannot be written) and leaves it as it was;
\* nothing in main catches that exception.
SaveStats ==
    /\ pc = "save"
    /\ \/ /\ disk' = to_parquet(df)
          /\ flushed' = df
          /\ pc' = "sleep"
          /\ ticks' = ticks + 1
          /\ UNCHANGED write_failed
       \/ /\ write_failed' = TRUE
          /\ pc' = "fatal"
          /\ UNCHANGED <<disk, flushed, ticks>>
    /\ UNCHANGED <<pings, run, now, df, log_count, last_speed_test, timestamp, speed, ping_run,
                   loaded, started, probes, interrupted, stop_at>>

\* time.sleep(1)
Sleep ==
    /\ pc = "sleep"
    /\ now' = now + SleepSecs
    /\ pc' = "measure_speed"
    /\ UNCHANGED <<pings, flushed, run, disk, df, log_count, last_speed_test, timestamp,
                   speed, ping_run,
                   loaded, started, ticks, probes, interrupted, stop_at, write_failed>>

\* The mutant catches everything in measure_speed (a bare except), so an
\* interrupt during the speed test is taken for a failed test.
Interrupt_swallowed ==
    /\ pc \in LoopPcs
    /\ ~interrupted
    /\ interrupted' = TRUE
    /\ stop_at' = pc
    /\ IF pc = "measure_speed" /\ started < MaxTicks
       THEN /\ pc' = "ping_command"
            /\ speed' = [download |-> None, upload |-> None,
                          last_speed_test |-> last_speed_test,
                          outcome |-> "download_raises"]
            /\ timestamp' = now
            /\ started' = started + 1
       ELSE /\ pc' = "handler"
            /\ UNCHANGED <<speed, timestamp, started>>
    /\ UNCHANGED <<pings, flushed, run, now, disk, df, log_count, last_speed_test, ping_run, loaded,
                   ticks, probes, write_failed>>

\* The operator's interrupt: Python raises KeyboardInterrupt in the main
\* thread wherever it is inside the try block.  The except Exception
\* clauses of measure_speed and ping_command do not catch it
\* (KeyboardInterrupt is no Exception), so control goes to main's handler
\* and the rest of the tick is not run.
Interrupt ==
    /\ pc \in LoopPcs
    /\ ~interrupted
    /\ interrupted' = TRUE
    /\ stop_at' = pc
    /\ pc' = "handler"
    /\ UNCHANGED <<pings, flushed, run, now, disk, df, log_count, last_speed_test, timestamp, speed,
                   ping_run, loaded, started, ticks, probes, write_failed>>

\* The mutant's handler prints its message and does not save.
FinalSave_message_only ==
    /\ pc = "handler"
    /\ pc' = "exited"
    /\ UNCHANGED <<pings, flushed, run, now, disk, df, log_count, last_speed_test, timestamp, speed,
                   ping_run, loaded, started, ticks, probes, interrupted, stop_at,
                   write_failed>>

\* except KeyboardInterrupt: the message and the final save_stats
FinalSave ==
    /\ pc = "handler"
    /\ \/ /\ disk' = to_parquet(df)
          /\ flushed' = df
          /\ pc' = "exited"
          /\ UNCHANGED write_failed
       \/ /\ write_failed' = TRUE
          /\ pc' = "fatal"
          /\ UNCHANGED <<disk, flushed>>
    /\ UNCHANGED <<pings, run, now, df, log_count, last_speed_test, timestamp, speed, ping_run,
                   loaded, started, ticks, probes, interrupted, stop_at>>

\* The process is terminated from outside (SIGKILL, power loss): no handler
\* runs and the memory is lost; the variables keep what it held.
Kill ==
    /\ pc \in LoopPcs \cup {"handler"}
    /\ stop_at' = pc
    /\ pc' = "killed"
    /\ UNCHANGED <<pings, flushed, run, now, disk, df, log_count, last_speed_test, timestamp, speed,
                   ping_run, loaded, started, ticks, probes, interrupted, write_failed>>

\* main() is started again on the same log file
Restart ==
    /\ pc \in {"exited", "fatal", "killed"}
    /\ run < MaxRuns
    /\ run' = run + 1
    /\ pc' = "init"
    /\ UNCHANGED <<pings, flushed, now, disk, df, log_count, last_speed_test, timestamp,
                   speed, ping_run,
                   loaded, started, ticks, probes, interrupted, stop_at, write_failed>>

Next ==
    \/ Construct
    \/ MeasureSpeed
    \/ PingAndAppend
    \/ PrintLatestStats
    \/ SaveStats
    \/ Sleep
    \/ Interrupt
    \/ FinalSave
    \/ Kill
    \/ Restart

Spec == Init /\ [][Next]_vars

\* ------------------------------------------------------------------ claims
\* the tick in progress has appended its row (lines 99-100 have run)
Appended == {"print", "save", "sleep"}

LastRow == df[Len(df)]

Gap(i) == probes[i + 1].at - probes[i].at

\* C1 (as claimed): any two consecutive invocations of the throughput probe
\* in a run are at least speed_test_interval seconds apart, whether the
\* earlier one succeeded or failed.
C1_AnyTwoProbesIntervalApart ==
    \A i \in 1..(Len(probes) - 1) : Gap(i) >= speed_test_interval

\* C1 (amended): two consecutive invocations of the throughput probe are at
\* least speed_test_interval seconds apart when the earlier one succeeded;
\* last_speed_test is the start of the latest successful probe (0 before
\* the first), so a failed attempt starts no cooldown.
C1_ProbesAfterSuccessIntervalApart ==
    /\ \A i \in 1..(Len(probes) - 1) : probes[i].ok => Gap(i) >= speed_test_interval
    /\ \A i \in 1..Len(probes) :
         (probes[i].ok /\ \A j \in (i + 1)..Len(probes) : ~probes[j].ok)
            => last_speed_test = probes[i].at
    /\ (\A i \in 1..Len(probes) : ~probes[i].ok) => last_speed_test = 0

\* a successful probe and the next probe of the run, a cooldown later
C1_Witness ==
    /\ Len(probes) >= 2
    /\ probes[1].ok
    /\ Gap(1) >= speed_test_interval

\* C2: a process killed after tick N's append and before tick N+1 starts
\* leaves a file whose reload is the series it held in memory.
C2_KilledAfterAppendReloadsAll ==
    (pc = "killed" /\ stop_at \in Appended) => read_parquet(disk) = df

\* C3 (as claimed): an interrupt stops the loop at a tick boundary only, so
\* the handler is never entered from the middle of a tick.
C3_StopsAtTickBoundaryOnly ==
    pc = "handler" => stop_at \in {"sleep", "measure_speed"}

\* C3 (amended): an interrupt takes effect at the step the tick is in: the
\* step it arrives in and the rest of the tick are not run, control goes
\* to the handler, and the series then holds the samples of the completed
\* ticks plus the whole sample of the tick in progress if its append had
\* run, and none of it otherwise.
C3_InterruptAbandonsTick ==
    /\ [](pc \in {"handler", "exited"} =>
            Len(df) = Len(loaded) + ticks + (IF stop_at \in {"print", "save"} THEN 1 ELSE 0))
    /\ [][(~interrupted /\ interrupted') =>
            (pc' = "handler" /\ stop_at' = pc /\ UNCHANGED <<df, disk, ticks, started>>)]_vars

C3_Witness ==
    /\ pc = "exited"
    /\ stop_at = "ping_command"
    /\ ticks = 1
    /\ Len(df) = 1

\* C4: when the process exits after an interrupt, the file holds exactly
\* the in-memory series.
C4_ExitAfterInterruptIsFlushed ==
    pc = "exited" => (interrupted /\ disk = to_parquet(df))

\* interrupted after the append and before the loop's own flush
C4_Witness ==
    /\ pc = "exited"
    /\ stop_at \in {"print", "save"}
    /\ Len(df) = Len(loaded) + ticks + 1

\* C5: with no interrupt and no failed write, the series at a tick boundary
\* has the loaded samples plus one per completed tick.
C5_OneSamplePerTick ==
    (pc \in {"sleep", "measure_speed"} /\ ~interrupted /\ ~write_failed)
        => (Len(df) = Len(loaded) + ticks /\ log_count = Len(df))

\* two ticks done, the second with both probes failed
C5_Witness ==
    /\ pc = "sleep"
    /\ ticks = 2
    /\ speed.outcome = "upload_raises"
    /\ ping_run.kind = "nonzero"
    /\ Len(df) = 2

GoodTimes(out) == SelectSeq(Tokens(TimeLines(out)), LAMBDA t : t # NaF)

\* C7: when the output mixes "time=" lines float() rejects with lines it
\* accepts, the sample's ping, jitter and packet_loss are computed from the
\* accepted ones.
C7_UnparsableLineDropped ==
    (/\ pc \in Appended
     /\ ping_run.kind = "exit0"
     /\ ValueError(ping_run.out)
     /\ GoodTimes(ping_run.out) # <<>>)
        => LET good == GoodTimes(ping_run.out)
           IN  /\ ~IsNone(LastRow.ping)
               /\ Same(LastRow.ping, mean(good))
               /\ Same(LastRow.packet_loss, [n |-> 100 * count - 100 * Len(good), d |-> count])

PingFails(r) ==
    \/ r.kind # "exit0"
    \/ ValueError(r.out)
    \/ TimeLines(r.out) = <<>>

\* C8: a tick whose throughput probe raised has download and upload absent
\* in its sample, a tick whose latency probe failed has ping and jitter
\* absent and packet_loss 100; either way the tick appends its one sample,
\* and no probe failure ends the process: it ends with an exception only
\* after a failed write.
C8_ProbeFailureRecordedNotFatal ==
    /\ pc \in Appended =>
         /\ Len(df) = Len(loaded) + ticks + (IF pc = "sleep" THEN 0 ELSE 1)
         /\ speed.outcome \in {"download_raises", "upload_raises"} =>
               (IsNone(LastRow.download_speed) /\ IsNone(LastRow.upload_speed))
         /\ PingFails(ping_run) =>
               /\ IsNone(LastRow.ping)
               /\ IsNone(LastRow.jitter)
               /\ LastRow.packet_loss = Num(100)
    /\ pc = "fatal" => write_failed

\* the loop is at the top of its second tick after a tick in which both
\* probes failed
C8_Witness ==
    /\ pc = "measure_speed"
    /\ ticks = 1
    /\ speed.outcome = "download_raises"
    /\ ping_run.kind = "exit0"
    /\ ValueError(ping_run.out)
    /\ IsNone(LastRow.ping)

\* C9: a failed write ends the process with the exception, and after it no
\* tick runs and nothing is appended or written in that run.
C9_FailedWriteIsFatal ==
    /\ [](write_failed => pc \in {"fatal", "init"})
    /\ [][pc = "fatal" => UNCHANGED <<df, disk, log_count, ticks, started>>]_vars

\* the flush of a tick failed, with the tick's sample in memory only
C9_Witness ==
    /\ pc = "fatal"
    /\ write_failed
    /\ ~interrupted
    /\ Len(df) = Len(read_parquet(disk)) + 1

\* C10: every sample's packet_loss lies between 0 and 100.
C10_PacketLossInRange ==
    \A i \in 1..Len(df) :
        /\ Leq(Num(0), df[i].packet_loss)
        /\ Leq(df[i].packet_loss, Num(100))

\* C11: in a tick whose ping run exits 0 with k >= 1 "time=" lines that
\* float() accepts, the sample's packet_loss is 100 * (1 - k / count) and
\* its ping is the mean of those k times.
C11_LossFromRequestedCount ==
    (/\ pc \in Appended
     /\ ping_run.kind = "exit0"
     /\ GoodTimes(ping_run.out) # <<>>)
        => LET good == GoodTimes(ping_run.out)
           IN  /\ ~IsNone(LastRow.packet_loss)
               /\ Same(LastRow.packet_loss,
                       [n |-> 100 * (count - Len(good)), d |-> count])
               /\ Same(LastRow.ping, mean(good))

C13_SpeedsPaired ==
    /\ \A i \in 1..Len(df) : IsNone(df[i].download_speed) = IsNone(df[i].upload_speed)
    /\ (pc \in Appended /\ speed.outcome = "upload_raises")
          => (IsNone(LastRow.download_speed) /\ IsNone(LastRow.upload_speed))

\* a sample with both speeds, then the sample of a tick whose upload raised
C13_Witness ==
    /\ pc \in Appended
    /\ speed.outcome = "upload_raises"
    /\ Len(df) = 2
    /\ ~IsNone(df[1].download_speed)
    /\ IsNone(df[2].upload_speed)

\* C14: in every sample jitter is absent exactly when ping is, an absent
\* ping goes with packet_loss 100 and a present one with packet_loss below
\* 100; the sample of a tick in which one time was extracted has jitter 0.
C14_LatencyFieldsAgree ==
    /\ \A i \in 1..Len(df) :
         /\ IsNone(df[i].jitter) = IsNone(df[i].ping)
         /\ IsNone(df[i].ping) => df[i].packet_loss = Num(100)
         /\ ~IsNone(df[i].ping) => ~Leq(Num(100), df[i].packet_loss)
    /\ (/\ pc \in Appended
        /\ ping_run.kind = "exit0"
        /\ ~ValueError(ping_run.out)
        /\ Len(TimeLines(ping_run.out)) = 1)
          => (~IsNone(LastRow.ping) /\ LastRow.jitter = Num(0))

\* a sample of a failed latency probe, then one of a single reply
C14_Witness ==
    /\ pc \in Appended
    /\ Len(df) = 2
    /\ IsNone(df[1].ping)
    /\ Len(TimeLines(ping_run.out)) = 1
    /\ ping_run.kind = "exit0"
    /\ LastRow.jitter = Num(0)

\* C15: between the end of a tick and the start of the next the file holds
\* exactly the in-memory series.
C15_FlushedAtTickBoundary ==
    (pc \in {"sleep", "measure_speed"} /\ ticks >= 1)
        => (disk.exists /\ read_parquet(disk) = df)

\* the boundary after the second tick of a run
C15_Witness ==
    /\ pc = "sleep"
    /\ ticks = 2
    /\ Len(df) = 2
    /\ read_parquet(disk) = df

\* C16: a tick that reads a clock less than speed_test_interval after
\* last_speed_test invokes no throughput probe and leaves last_speed_test as
\* it was, and its sample has download_speed and upload_speed absent.
C16_CooldownTickSkipsProbe ==
    /\ [][(pc = "measure_speed" /\ pc' = "ping_command"
             /\ now - last_speed_test < speed_test_interval)
            => (probes' = probes /\ last_speed_test' = last_speed_test /\ now' = now)]_vars
    /\ [](pc \in Appended /\ timestamp - last_speed_test < speed_test_interval
             /\ last_speed_test # timestamp
            => (IsNone(LastRow.download_speed) /\ IsNone(LastRow.upload_speed)))

\* the tick after a successful probe, inside the cooldown, has appended
C16_Witness ==
    /\ pc \in Appended
    /\ Len(probes) = 1
    /\ probes[1].ok
    /\ last_speed_test = probes[1].at
    /\ timestamp - last_speed_test < speed_test_interval
    /\ timestamp > last_speed_test
    /\ Len(df) = 2
    /\ ~IsNone(df[1].download_speed)
    /\ IsNone(df[2].download_speed)

\* C17: the ping process is run once in every tick: at any point of the
\* loop it has been run once per completed tick, and once more if the tick
\* in progress is past its latency probe, whatever measure_speed did.
C17_OnePingPerTick ==
    pc \in LoopPcs => pings = ticks + (IF pc \in {"print", "save"} THEN 1 ELSE 0)

\* a tick whose speed test ran and succeeded, and a second tick, inside
\* the cooldown, past its latency probe
C17_Witness ==
    /\ pc = "print"
    /\ pings = 2
    /\ ticks = 1
    /\ speed.outcome = "skipped"
    /\ ~IsNone(df[1].download_speed)

\* C18: once a throughput probe has succeeded, every later probe of the run
\* starts at least speed_test_interval seconds after that probe started: a
\* probe is invoked only speed_test_interval or more after last_speed_test,
\* which a probe either leaves or, on success, sets to the time read
\* before it ran.
C18_NoProbeInsideCooldown ==
    /\ [](\A i \in 1..Len(probes) : \A j \in (i + 1)..Len(probes) :
            probes[i].ok => probes[j].at - probes[i].at >= speed_test_interval)
    /\ [][Len(probes') > Len(probes) =>
            /\ now - last_speed_test >= speed_test_interval
            /\ last_speed_test' = (IF probes'[Len(probes')].ok THEN now ELSE last_speed_test)]_vars

\* a successful slow probe, and a failed probe after the cooldown
C18_Witness ==
    /\ Len(probes) = 2
    /\ probes[1].ok
    /\ ~probes[2].ok
    /\ last_speed_test = probes[1].at
    /\ now > last_speed_test + speed_test_interval

\* C19: the first tick of every run invokes the throughput probe, however
\* recently an earlier run invoked it.
C19_FirstTickProbes ==
    (pc \in {"ping_command", "print", "save"} /\ ticks = 0)
        => (Len(probes) = 1 /\ probes[1].at = timestamp /\ speed.outcome # "skipped")

\* a second run probes less than speed_test_interval after the successful
\* probe of the first run, whose sample it loaded
C19_Witness ==
    /\ run = 2
    /\ pc = "ping_command"
    /\ ticks = 0
    /\ Len(loaded) = 1
    /\ ~IsNone(loaded[1].download_speed)
    /\ Len(probes) = 1
    /\ probes[1].at - loaded[1].timestamp < speed_test_interval

====
